---- MODULE Spec2Model ----
(***************************************************************************)
(* Data preparation of the university budget / IGC panel.                  *)
(*                                                                         *)
(* Two programs are modelled:                                              *)
(*   app.py                          carregar_dados and the two tabs       *)
(*   codigo/analise_exploratoria.py  the notebook script: a try block      *)
(*                                   that loads and cleans, then sections  *)
(*                                   2, 3 and 4 guarded by 'df' in locals()*)
(*                                                                         *)
(* A cell of a table is a record [k, n, d]:                                *)
(*   k = "num"   the rational n/d (d > 0, reduced)                         *)
(*   k = "nan"   a missing value (NaN)                                     *)
(*   k = "ninf"  minus infinity (numpy's log of 0)                         *)
(*   k = "ln"    the natural logarithm of the positive rational n/d        *)
(*   k = "mil"   the rational n/d divided by 1_000_000                     *)
(***************************************************************************)
EXTENDS Integers, Sequences, FiniteSets, TLC

VARIABLES variant, file, pc, dfBound, df, dfPanelBound, err, ran, regRows,
          attempts, reached

vars == <<variant, file, pc, dfBound, df, dfPanelBound, err, ran, regRows,
          attempts, reached>>

(***************************************************************************)
(* Bounds of the explored inputs.                                          *)
(***************************************************************************)
MaxRows == 3
MaxRowsWide == 2

(***************************************************************************)
(* Cells.                                                                  *)
(***************************************************************************)
NaN == [k |-> "nan", n |-> 0, d |-> 1]
NegInf == [k |-> "ninf", n |-> 0, d |-> 1]

Abs(i) == IF i < 0 THEN -i ELSE i

RECURSIVE Gcd(_, _)
Gcd(a, b) == IF b = 0 THEN a ELSE Gcd(b, a % b)

\* The rational a/b (b # 0), reduced, with a positive denominator.
Frac(a, b) ==
  LET g == Gcd(Abs(a), Abs(b))
      s == IF b < 0 THEN -1 ELSE 1
  IN  [k |-> "num", n |-> (s * a) \div g, d |-> (s * b) \div g]

Num(i) == [k |-> "num", n |-> i, d |-> 1]

IsNaN(v) == v.k = "nan"
IsNum(v) == v.k = "num"

(***************************************************************************)
(* Column names.  A raw header is a core name with optional leading and    *)
(* trailing blanks.                                                        *)
(***************************************************************************)
Hdr(lead, core, trail) == [lead |-> lead, core |-> core, trail |-> trail]
Plain(core) == Hdr(FALSE, core, FALSE)

\* df.columns.str.strip()
Strip(h) == Hdr(FALSE, h.core, FALSE)

\* The rename map of both programs.  The key "Ano " keeps its blank: the
\* headers are stripped before the map is applied.
AliasMapBody(h) ==
  IF h = Plain("Orçamento(GND 3+4)") THEN Plain("Orcamento")
  ELSE IF h = Plain("IGC (Contínuo)") THEN Plain("IGC")
  ELSE IF h = Plain("IGC (Continuo)") THEN Plain("IGC")
  ELSE IF h = Hdr(FALSE, "Ano", TRUE) THEN Plain("Ano")
  ELSE h

Rename(h) == AliasMapBody(h)

\* Strip, then rename: the column names of the normalized table.
Normalize(hdrs) == {Rename(Strip(h)) : h \in hdrs}

Has(t, c) == Plain(c) \in t.cols

(***************************************************************************)
(* Entities are ordered as strings are: by their place in Universidades.   *)
(***************************************************************************)
Universidades == <<"UFA", "UFB">>

UniSet == {Universidades[i] : i \in 1..Len(Universidades)}

Rank(u) == CHOOSE i \in 1..Len(Universidades) : Universidades[i] = u

\* Year first, entity second.
KeyLessAnoMajor(a, b) ==
  \/ a.Ano < b.Ano
  \/ a.Ano = b.Ano /\ Rank(a.Universidade) < Rank(b.Universidade)

\* (Universidade, Ano) of a before that of b, lexicographically.
KeyLess(a, b) ==
  \/ Rank(a.Universidade) < Rank(b.Universidade)
  \/ Rank(a.Universidade) = Rank(b.Universidade) /\ a.Ano < b.Ano

\* r placed after every row whose key is not greater: the sort is stable.
RECURSIVE InsertRow(_, _)
InsertRow(s, r) ==
  IF s = <<>> THEN <<r>>
  ELSE IF KeyLess(r, Head(s)) THEN <<r>> \o s
  ELSE <<Head(s)>> \o InsertRow(Tail(s), r)

RECURSIVE SortRows(_)
SortRows(s) ==
  IF s = <<>> THEN <<>>
  ELSE InsertRow(SortRows(SubSeq(s, 1, Len(s) - 1)), s[Len(s)])

\* df.sort_values(["Universidade", "Ano"])
SortValues(rows) == SortRows(rows)

(***************************************************************************)
(* IGC repair.                                                             *)
(***************************************************************************)
\* The positions of s, in order, of the rows of entity u.
GroupIdx(rows, u) ==
  LET RECURSIVE Pick(_)
      Pick(i) == IF i > Len(rows) THEN <<>>
                 ELSE IF rows[i].Universidade = u THEN <<i>> \o Pick(i + 1)
                 ELSE Pick(i + 1)
  IN  Pick(1)

\* The last position before i that holds a value, 0 when there is none.
PrevValid(s, i) ==
  LET c == {j \in 1..(i - 1) : ~IsNaN(s[j])}
  IN  IF c = {} THEN 0 ELSE CHOOSE j \in c : \A m \in c : m <= j

\* The first position after i that holds a value, 0 when there is none.
NextValid(s, i) ==
  LET c == {j \in (i + 1)..Len(s) : ~IsNaN(s[j])}
  IN  IF c = {} THEN 0 ELSE CHOOSE j \in c : \A m \in c : j <= m

\* a + (b - a) * num / den, for two rational cells a and b.
Lerp(a, b, num, den) ==
  Frac(a.n * b.d * den + (b.n * a.d - a.n * b.d) * num, a.d * b.d * den)

\* As Interpolate, with the leading gap filled from the first value
\* (limit_direction "both").
InterpolateBothWays(s) ==
  [i \in 1..Len(s) |->
     IF ~IsNaN(s[i]) THEN s[i]
     ELSE LET p == PrevValid(s, i)
              q == NextValid(s, i)
          IN  IF p = 0 THEN (IF q = 0 THEN NaN ELSE s[q])
              ELSE IF q = 0 THEN s[p]
              ELSE Lerp(s[p], s[q], i - p, q - p)]

\* Series.interpolate() with pandas' defaults: method "linear" takes the
\* values as equally spaced (the index is not read), limit_direction
\* "forward" leaves the leading gap alone and carries the last value into
\* the trailing gap.
Interpolate(s) ==
  [i \in 1..Len(s) |->
     IF ~IsNaN(s[i]) THEN s[i]
     ELSE LET p == PrevValid(s, i)
              q == NextValid(s, i)
          IN  IF p = 0 THEN NaN
              ELSE IF q = 0 THEN s[p]
              ELSE Lerp(s[p], s[q], i - p, q - p)]

\* Series.ffill(): a missing value takes the last value before it.
Ffill(s) ==
  [i \in 1..Len(s) |->
     IF ~IsNaN(s[i]) THEN s[i]
     ELSE LET p == PrevValid(s, i)
          IN  IF p = 0 THEN NaN ELSE s[p]]

\* The lambda of the transform: x.interpolate().ffill()
RepairSeries(s) == Ffill(Interpolate(s))

\* df.groupby("Universidade")[col]: the series of column col that the
\* transform is given for the entity of row i, and the place of row i in
\* it, where the result for row i is written back from.
GroupSeries(rows, col, i) ==
  LET idx == GroupIdx(rows, rows[i].Universidade)
  IN  [j \in 1..Len(idx) |-> rows[idx[j]][col]]

GroupPos(rows, i) ==
  LET idx == GroupIdx(rows, rows[i].Universidade)
  IN  CHOOSE j \in 1..Len(idx) : idx[j] = i

\* df.groupby("Universidade")["IGC"].transform(lambda x: ...)
RepairIGC(rows) ==
  [i \in 1..Len(rows) |->
     [rows[i] EXCEPT !.IGC =
        RepairSeries(GroupSeries(rows, "IGC", i))[GroupPos(rows, i)]]]

(***************************************************************************)
(* Derived columns.                                                        *)
(***************************************************************************)
\* np.log: NaN for a missing or negative input, -inf for 0.
Log(v) ==
  IF IsNum(v) THEN
       IF v.n > 0 THEN [k |-> "ln", n |-> v.n, d |-> v.d]
       ELSE IF v.n = 0 THEN NegInf
       ELSE NaN
  ELSE NaN

\* df["Orcamento"] / 1_000_000
Milhoes(v) ==
  IF IsNum(v) THEN [k |-> "mil", n |-> v.n, d |-> v.d] ELSE NaN

TetoAno == 2017

\* The indicator with the cap year itself left out.
PosTetoAfter(ano) == IF ano > TetoAno THEN 1 ELSE 0

\* (df["Ano"] >= 2017).astype(int)
PosTeto(ano) == IF ano >= TetoAno THEN 1 ELSE 0

\* Series.shift(1): every value moves one position later.
Shift1(s) == [i \in 1..Len(s) |-> IF i = 1 THEN NaN ELSE s[i - 1]]

\* The product of a log cell and the 0/1 indicator, in IEEE arithmetic:
\* NaN * p = NaN, -inf * 0 = NaN, -inf * 1 = -inf, x * 0 = 0.
Mul(v, p) ==
  IF IsNaN(v) THEN NaN
  ELSE IF p = 1 THEN v
  ELSE IF v.k = "ninf" THEN NaN
  ELSE Num(0)

(***************************************************************************)
(* Tables.  A table is [cols, rows]: the set of its column names and its   *)
(* rows in order.  A row carries a field for every column the programs     *)
(* read or write; cols says which of them exist.  id is the row's place in *)
(* the file and is not a column.                                           *)
(***************************************************************************)
Row(id, u, ano, orc, igc, obs) ==
  [id |-> id, Universidade |-> u, Ano |-> ano, Orcamento |-> orc,
   IGC |-> igc, Obs |-> obs,
   Orcamento_Milhoes |-> NaN, ln_Orcamento |-> NaN, ln_IGC |-> NaN,
   ln_Orcamento_lag |-> NaN, Pos_Teto |-> 0, Interacao |-> NaN]

NoTable == [cols |-> {}, rows |-> <<>>]

\* The columns whose cells can be missing.
CellCols ==
  {"Orcamento", "IGC", "Obs", "Orcamento_Milhoes", "ln_Orcamento", "ln_IGC",
   "ln_Orcamento_lag", "Interacao"}

AddCols(t, names) == t.cols \cup {Plain(c) : c \in names}

\* The rows of s that satisfy Keep, in order.
RECURSIVE SelectRows(_, _)
SelectRows(s, keep) ==
  IF s = <<>> THEN <<>>
  ELSE IF Head(s).id \in keep THEN <<Head(s)>> \o SelectRows(Tail(s), keep)
  ELSE SelectRows(Tail(s), keep)

\* A row with a missing cell in some column of the table.
HasNaN(t, r) == \E c \in CellCols : Has(t, c) /\ IsNaN(r[c])

\* df.dropna(): the rows with no missing cell in any column.
DropNa(t) ==
  [cols |-> t.cols,
   rows |-> SelectRows(t.rows,
                       {t.rows[i].id : i \in {j \in 1..Len(t.rows) :
                                                ~HasNaN(t, t.rows[j])}})]

(***************************************************************************)
(* Ingest.  A file is [ext, comma, semi, xl, hdrs, rows]: its extension,   *)
(* whether each parse of it succeeds, and the table a successful parse     *)
(* yields.  pandas' read_csv raises on a file with no columns;             *)
(* read_excel returns the empty table of an empty sheet.                   *)
(***************************************************************************)
NoFile ==
  [ext |-> "none", comma |-> FALSE, semi |-> FALSE, xl |-> FALSE,
   hdrs |-> {}, rows |-> <<>>]

Parsed(f) == [ok |-> TRUE, tbl |-> [cols |-> f.hdrs, rows |-> f.rows]]
Failed == [ok |-> FALSE, tbl |-> NoTable]

\* pd.read_csv(file)
ReadCsvComma(f) == IF f.comma /\ f.hdrs # {} THEN Parsed(f) ELSE Failed

\* pd.read_csv(file, sep=";", encoding="latin1")
ReadCsvSemi(f) == IF f.semi /\ f.hdrs # {} THEN Parsed(f) ELSE Failed

\* pd.read_excel(file)
ReadExcel(f) == IF f.xl THEN Parsed(f) ELSE Failed

\* file.name.endswith(".csv")
IsCsv(f) == f.ext = "csv"

\* The if / try / except of the load: the parses attempted, in order, and
\* the outcome of the last one.
Ingest(f) ==
  IF IsCsv(f) THEN
       LET c == ReadCsvComma(f)
       IN  IF c.ok THEN [att |-> <<"comma">>, res |-> c]
           ELSE [att |-> <<"comma", "semicolon">>, res |-> ReadCsvSemi(f)]
  ELSE [att |-> <<"excel">>, res |-> ReadExcel(f)]

NormalizeTable(t) == [cols |-> Normalize(t.cols), rows |-> t.rows]

(***************************************************************************)
(* Errors.                                                                 *)
(***************************************************************************)
NoErr == [kind |-> "none", col |-> ""]
IngestErr == [kind |-> "ingest", col |-> ""]
KeyError(c) == [kind |-> "schema", col |-> c]

(***************************************************************************)
(* app.py, carregar_dados.                                                 *)
(***************************************************************************)
\* Lines 84-86: Orcamento_Milhoes, ln_Orcamento, ln_IGC.
AddLogs(rows) ==
  [i \in 1..Len(rows) |->
     [rows[i] EXCEPT !.Orcamento_Milhoes = Milhoes(rows[i].Orcamento),
                     !.ln_Orcamento = Log(rows[i].Orcamento),
                     !.ln_IGC = Log(rows[i].IGC)]]

\* Line 89: df.groupby("Universidade")["ln_Orcamento"].shift(1)
AddLag(rows) ==
  [i \in 1..Len(rows) |->
     [rows[i] EXCEPT !.ln_Orcamento_lag =
        Shift1(GroupSeries(rows, "ln_Orcamento", i))[GroupPos(rows, i)]]]

\* Lines 92-93: Pos_Teto, and Interacao from the lagged log.
AddDiDLag(rows) ==
  [i \in 1..Len(rows) |->
     [rows[i] EXCEPT !.Pos_Teto = PosTeto(rows[i].Ano),
                     !.Interacao = Mul(rows[i].ln_Orcamento_lag,
                                       PosTeto(rows[i].Ano))]]

Outcome(att, rch, e, bound, t) ==
  [attempts |-> att, reached |-> rch, err |-> e, bound |-> bound, tbl |-> t,
   panel |-> FALSE]

\* The whole of carregar_dados: the table it returns, or the exception that
\* leaves it.  bound is TRUE when a table is returned.
CarregarDados(f) ==
  LET ing == Ingest(f)
      t1 == NormalizeTable(ing.res.tbl)
      t2 == [t1 EXCEPT !.rows = SortValues(t1.rows)]
      t3 == [t2 EXCEPT !.rows = RepairIGC(t2.rows)]
      t4 == [cols |-> AddCols(t3, {"Orcamento_Milhoes", "ln_Orcamento",
                                   "ln_IGC", "ln_Orcamento_lag", "Pos_Teto",
                                   "Interacao"}),
             rows |-> AddDiDLag(AddLag(AddLogs(t3.rows)))]
  IN  IF ~ing.res.ok THEN Outcome(ing.att, {}, IngestErr, FALSE, NoTable)
      ELSE IF ~Has(t1, "Universidade")
        THEN Outcome(ing.att, {"normalize", "buildPanel"},
                     KeyError("Universidade"), FALSE, NoTable)
      ELSE IF ~Has(t1, "Ano")
        THEN Outcome(ing.att, {"normalize", "buildPanel"}, KeyError("Ano"),
                     FALSE, NoTable)
      ELSE IF ~Has(t1, "IGC")
        THEN Outcome(ing.att, {"normalize", "buildPanel"}, KeyError("IGC"),
                     FALSE, NoTable)
      ELSE IF ~Has(t1, "Orcamento")
        THEN Outcome(ing.att, {"normalize", "buildPanel"},
                     KeyError("Orcamento"), FALSE, NoTable)
      ELSE Outcome(ing.att, {"normalize", "buildPanel"}, NoErr, TRUE,
                   DropNa(t4))

(***************************************************************************)
(* codigo/analise_exploratoria.py, the try block (lines 24-61).  An        *)
(* exception leaves df bound to what was last assigned to it.              *)
(***************************************************************************)
ScriptOutcome(att, rch, e, bound, t, panel) ==
  [attempts |-> att, reached |-> rch, err |-> e, bound |-> bound, tbl |-> t,
   panel |-> panel]

ScriptLoadBlock(f) ==
  LET ing == Ingest(f)
      t1 == NormalizeTable(ing.res.tbl)
      t2 == [t1 EXCEPT !.rows = SortValues(t1.rows)]
      s1 == [i \in 1..Len(t2.rows) |->
               [t2.rows[i] EXCEPT !.IGC =
                  Interpolate(GroupSeries(t2.rows, "IGC", i))
                    [GroupPos(t2.rows, i)]]]
      t3 == [t2 EXCEPT !.rows =
               [i \in 1..Len(s1) |->
                  [s1[i] EXCEPT !.IGC =
                     Ffill(GroupSeries(s1, "IGC", i))[GroupPos(s1, i)]]]]
      t4 == [cols |-> AddCols(t3, {"ln_Orcamento", "ln_IGC"}),
             rows |-> [i \in 1..Len(t3.rows) |->
                         [t3.rows[i] EXCEPT
                            !.ln_Orcamento = Log(t3.rows[i].Orcamento),
                            !.ln_IGC = Log(t3.rows[i].IGC)]]]
      all == {"normalize", "buildPanel"}
  IN  IF ~ing.res.ok
        THEN ScriptOutcome(ing.att, {}, IngestErr, FALSE, NoTable, FALSE)
      ELSE IF ~Has(t1, "Universidade")
        THEN ScriptOutcome(ing.att, all, KeyError("Universidade"), TRUE, t1,
                           FALSE)
      ELSE IF ~Has(t1, "Ano")
        THEN ScriptOutcome(ing.att, all, KeyError("Ano"), TRUE, t1, FALSE)
      ELSE IF ~Has(t1, "IGC")
        THEN ScriptOutcome(ing.att, all, KeyError("IGC"), TRUE, t2, FALSE)
      ELSE IF ~Has(t1, "Orcamento")
        THEN ScriptOutcome(ing.att, all, KeyError("Orcamento"), TRUE, t3,
                           FALSE)
      ELSE ScriptOutcome(ing.att, all, NoErr, TRUE, t4, TRUE)

\* Lines 112-115: Pos_Teto, and Interacao from the contemporaneous log.
AddDiD(rows) ==
  [i \in 1..Len(rows) |->
     [rows[i] EXCEPT !.Pos_Teto = PosTeto(rows[i].Ano),
                     !.Interacao = Mul(rows[i].ln_Orcamento,
                                       PosTeto(rows[i].Ano))]]

(***************************************************************************)
(* The explored files.  Universidade and Ano are never missing, a raw      *)
(* header names at most one canonical column, rows may come in any order   *)
(* and may repeat a (Universidade, Ano).  Four families: rows that vary in *)
(* entity, year and IGC; rows that vary in entity, year, budget and an     *)
(* extra column; every choice of raw headers; every outcome of the parses. *)
(***************************************************************************)
Anos == {2016, 2017, 2019}

Canon == {Plain("Universidade"), Plain("Ano"), Plain("Orcamento"),
          Plain("IGC")}

\* The sequences over S of length at most n.
SeqsUpTo(S, n) == UNION {[1..m -> S] : m \in 0..n}

\* Rows numbered by their place in the file.
Numbered(s) == [i \in 1..Len(s) |-> [s[i] EXCEPT !.id = i]]

\* Rows that vary in entity, year and IGC; no extra column.
RepairRows ==
  {Row(0, u, a, Num(5), g, NaN) :
     u \in UniSet, a \in Anos, g \in {NaN, Num(10), Num(14)}}

\* Rows that vary in entity, year, budget and the extra column Obs.
WideRows ==
  {Row(0, u, a, o, Num(10), x) :
     u \in UniSet, a \in {2016, 2017},
     o \in {NaN, Num(-1), Num(0), Num(5)}, x \in {NaN, Num(1)}}

CsvFile(hdrs, rows) ==
  [ext |-> "csv", comma |-> TRUE, semi |-> TRUE, xl |-> FALSE,
   hdrs |-> hdrs, rows |-> rows]

RepairFiles ==
  {CsvFile(Canon, Numbered(s)) : s \in SeqsUpTo(RepairRows, MaxRows)}

WideFiles ==
  {CsvFile(Canon \cup {Plain("Obs")}, Numbered(s)) :
     s \in SeqsUpTo(WideRows, MaxRowsWide)}

\* One small table under every choice of raw headers.
SampleRows ==
  Numbered(<<Row(0, "UFA", 2017, Num(5), Num(14), Num(1)),
             Row(0, "UFA", 2016, Num(5), Num(10), Num(1))>>)

HeaderSets ==
  {u \cup a \cup o \cup g \cup x :
     u \in {{}, {Plain("Universidade")}, {Hdr(TRUE, "Universidade", TRUE)}},
     a \in {{}, {Plain("Ano")}, {Hdr(FALSE, "Ano", TRUE)}},
     o \in {{}, {Plain("Orcamento")}, {Plain("Orçamento(GND 3+4)")}},
     g \in {{}, {Plain("IGC")}, {Plain("IGC (Contínuo)")},
            {Plain("IGC (Continuo)")}},
     x \in {{}, {Plain("Obs")}}}

SchemaFiles ==
  {CsvFile(h, IF h = {} THEN <<>> ELSE SampleRows) : h \in HeaderSets}

\* Every extension and every outcome of the three parses.
ParseFiles ==
  {[ext |-> e, comma |-> c, semi |-> s, xl |-> x, hdrs |-> h,
    rows |-> IF h = {} THEN <<>> ELSE SampleRows] :
     e \in {"csv", "xlsx"}, c \in BOOLEAN, s \in BOOLEAN, x \in BOOLEAN,
     h \in {{}, Canon}}

Files == RepairFiles \cup WideFiles \cup SchemaFiles \cup ParseFiles

(***************************************************************************)
(* The state machine.                                                      *)
(***************************************************************************)
Modelos == {"FE", "RE", "DiD"}

Init ==
  /\ variant \in {"app", "script"}
  /\ file \in Files \cup {NoFile}
  /\ pc = "start"
  /\ dfBound = FALSE
  /\ df = NoTable
  /\ dfPanelBound = FALSE
  /\ err = NoErr
  /\ ran = {}
  /\ regRows = <<>>
  /\ attempts = <<>>
  /\ reached = {}

\* app.py 46-48: no upload, st.stop().
\* analise_exploratoria.py 60-61: no data file in the folder.
NoUpload ==
  /\ pc = "start"
  /\ file = NoFile
  /\ pc' = IF variant = "app" THEN "stopped" ELSE "sec2"
  /\ UNCHANGED <<variant, file, dfBound, df, dfPanelBound, err, ran, regRows,
                 attempts, reached>>

\* app.py 97: df = carregar_dados(uploaded_file).  An exception ends the run.
AppCarregar ==
  /\ variant = "app"
  /\ pc = "start"
  /\ file # NoFile
  /\ LET o == CarregarDados(file)
     IN  /\ attempts' = o.attempts
         /\ reached' = o.reached
         /\ err' = o.err
         /\ dfBound' = o.bound
         /\ df' = o.tbl
         /\ pc' = IF o.bound THEN "tab1" ELSE "crashed"
  /\ UNCHANGED <<variant, file, dfPanelBound, ran, regRows>>

\* app.py 102-162: the selector and the charts of the first tab.
AppTab1 ==
  /\ variant = "app"
  /\ pc = "tab1"
  /\ ran' = ran \cup {"charts"}
  /\ pc' = "tab2"
  /\ UNCHANGED <<variant, file, dfBound, df, dfPanelBound, err, regRows,
                 attempts, reached>>

\* app.py 167-239: the chosen model is fitted on df and interpreted.
AppTab2 ==
  /\ variant = "app"
  /\ pc = "tab2"
  /\ \E m \in Modelos : ran' = ran \cup {m, "conclusion"}
  /\ dfPanelBound' = TRUE
  /\ regRows' = df.rows
  /\ pc' = "end"
  /\ UNCHANGED <<variant, file, dfBound, df, err, attempts, reached>>

\* analise_exploratoria.py 24-59: the try block.
ScriptLoad ==
  /\ variant = "script"
  /\ pc = "start"
  /\ file # NoFile
  /\ LET o == ScriptLoadBlock(file)
     IN  /\ attempts' = o.attempts
         /\ reached' = o.reached
         /\ err' = o.err
         /\ dfBound' = o.bound
         /\ df' = o.tbl
         /\ dfPanelBound' = o.panel
  /\ pc' = "sec2"
  /\ UNCHANGED <<variant, file, ran, regRows>>

\* analise_exploratoria.py 64-85: the correlations of Orcamento and IGC,
\* then the scatter of the two logs.  A column that is not there raises,
\* and nothing catches it.
ScriptCorrelacao ==
  /\ variant = "script"
  /\ pc = "sec2"
  /\ IF ~dfBound THEN
          /\ pc' = "sec3"
          /\ ran' = ran
     ELSE IF ~(Has(df, "Orcamento") /\ Has(df, "IGC")) THEN
          /\ pc' = "crashed"
          /\ ran' = ran
     ELSE IF ~(Has(df, "ln_Orcamento") /\ Has(df, "ln_IGC")) THEN
          /\ pc' = "crashed"
          /\ ran' = ran \cup {"correlation"}
     ELSE /\ pc' = "sec3"
          /\ ran' = ran \cup {"correlation", "charts"}
  /\ UNCHANGED <<variant, file, dfBound, df, dfPanelBound, err, regRows,
                 attempts, reached>>

\* analise_exploratoria.py 88-106: FE and RE on df_panel.
ScriptModelos ==
  /\ variant = "script"
  /\ pc = "sec3"
  /\ IF dfPanelBound THEN
          /\ ran' = ran \cup {"FE", "RE"}
          /\ regRows' = df.rows
     ELSE /\ ran' = ran
          /\ regRows' = regRows
  /\ pc' = "sec4"
  /\ UNCHANGED <<variant, file, dfBound, df, dfPanelBound, err, attempts,
                 reached>>

\* analise_exploratoria.py 109-147: Pos_Teto and Interacao are added to df,
\* the DiD model is fitted on it and the conclusion is printed.
ScriptDiD ==
  /\ variant = "script"
  /\ pc = "sec4"
  /\ IF dfBound THEN
          /\ df' = [cols |-> AddCols(df, {"Pos_Teto", "Interacao"}),
                    rows |-> AddDiD(df.rows)]
          /\ ran' = ran \cup {"DiD", "conclusion"}
     ELSE /\ df' = df
          /\ ran' = ran
  /\ pc' = "end"
  /\ UNCHANGED <<variant, file, dfBound, dfPanelBound, err, regRows, attempts,
                 reached>>

Next ==
  \/ NoUpload
  \/ AppCarregar
  \/ AppTab1
  \/ AppTab2
  \/ ScriptLoad
  \/ ScriptCorrelacao
  \/ ScriptModelos
  \/ ScriptDiD

Spec == Init /\ [][Next]_vars

(***************************************************************************)
(* Vocabulary of the properties.                                           *)
(***************************************************************************)
\* A complete panel was built from the file.
PanelProduced == dfBound /\ err = NoErr

InputRows == {file.rows[i] : i \in 1..Len(file.rows)}
OutRows == {df.rows[i] : i \in 1..Len(df.rows)}
RegRowSet == {regRows[i] : i \in 1..Len(regRows)}

\* a comes before b in the time order of their entity (ties by file order).
Earlier(a, b) ==
  /\ a.Universidade = b.Universidade
  /\ a.Ano < b.Ano \/ (a.Ano = b.Ano /\ a.id < b.id)

Observed(r) == ~IsNaN(r.IGC)

\* The observed rows of r's entity before and after r.
ObsBefore(r) == {p \in InputRows : Earlier(p, r) /\ Observed(p)}
ObsAfter(r) == {q \in InputRows : Earlier(r, q) /\ Observed(q)}

LastOf(S) == CHOOSE p \in S : \A m \in S : m = p \/ Earlier(m, p)
FirstOf(S) == CHOOSE q \in S : \A m \in S : m = q \/ Earlier(q, m)

\* The rows before r in its entity.
RowsBefore(r) == {p \in InputRows : Earlier(p, r)}

\* Every (Universidade, Ano) occurs once in the file.
KeysDistinct ==
  \A a, b \in InputRows :
    (a.Universidade = b.Universidade /\ a.Ano = b.Ano) => a.id = b.id

PositiveBudget(r) == IsNum(r.Orcamento) /\ r.Orcamento.n > 0

\* The row before r in its entity has a positive budget.
FollowsPositive(r) ==
  RowsBefore(r) # {} /\ PositiveBudget(LastOf(RowsBefore(r)))

\* A missing IGC with no observed value before it in its entity.
LeadingGap(r) == ~Observed(r) /\ ObsBefore(r) = {}

\* The file with its extra cells all filled.
FillObs(f) ==
  [f EXCEPT !.rows = [i \in 1..Len(f.rows) |->
                        [f.rows[i] EXCEPT !.Obs = Num(1)]]]

\* A row without its extra cell.
Core(x) == [x EXCEPT !.Obs = Num(1)]

CoreSeq(rows) == [i \in 1..Len(rows) |-> Core(rows[i])]

\* The budget log Interacao is built from.
BudgetLog(x) ==
  IF variant = "app" THEN x.ln_Orcamento_lag ELSE x.ln_Orcamento

\* The derived fields of a row of the file are all defined: its budget and
\* the budget of the row before it are positive, and its IGC is observed
\* or can be repaired from an earlier one.
AllDerivedDefined(r) ==
  /\ PositiveBudget(r)
  /\ Observed(r) \/ ObsBefore(r) # {}
  /\ FollowsPositive(r)

\* The IGC column of df holds the repaired values.
Repaired ==
  /\ dfBound
  /\ \/ err = NoErr
     \/ variant = "script" /\ err = KeyError("Orcamento")

(***************************************************************************)
(* C1.  After the repair, a missing IGC between two observed values of its *)
(* entity is their linear interpolation against Ano, a missing IGC after   *)
(* the last observed value equals it, and an observed value is unchanged.  *)
(* Stated for the files in which no (Universidade, Ano) is repeated, where *)
(* the time order of an entity is that of its years.                       *)
(***************************************************************************)
C1_InterpolatesAgainstAno ==
  (Repaired /\ KeysDistinct) =>
    \A x \in OutRows : \A r \in InputRows :
      x.id = r.id =>
        /\ Observed(r) => x.IGC = r.IGC
        /\ (~Observed(r) /\ ObsBefore(r) # {} /\ ObsAfter(r) = {}) =>
             x.IGC = LastOf(ObsBefore(r)).IGC
        /\ (~Observed(r) /\ ObsBefore(r) # {} /\ ObsAfter(r) # {}) =>
             LET p == LastOf(ObsBefore(r))
                 q == FirstOf(ObsAfter(r))
             IN  q.Ano > p.Ano =>
                   x.IGC = Lerp(p.IGC, q.IGC, r.Ano - p.Ano, q.Ano - p.Ano)

(***************************************************************************)
(* C2.  When a canonical column is absent after normalization the build    *)
(* fails with an error naming a missing column, no table (complete or      *)
(* partial) is left, and no downstream step runs.  Stated for the tables   *)
(* that have some column.                                                  *)
(***************************************************************************)
C2_SchemaFailureAborts ==
  (pc # "start" /\ file # NoFile /\ Ingest(file).res.ok /\ file.hdrs # {}
     /\ ~(Canon \subseteq Normalize(file.hdrs))) =>
    /\ err.kind = "schema"
    /\ Plain(err.col) \in Canon \ Normalize(file.hdrs)
    /\ ~dfBound
    /\ ~dfPanelBound
    /\ ran = {}

(***************************************************************************)
(* C3.  A row with a non-positive Orcamento is kept in the panel with its  *)
(* ln_Orcamento marked undefined and is not handed to the regression, or   *)
(* the whole panel is rejected.  For carregar_dados, which drops the first *)
(* period of an entity, it is stated for the rows that follow a row with a *)
(* positive budget.  No (Universidade, Ano) is repeated in the file and no *)
(* extra cell is missing.                                                  *)
(***************************************************************************)
C3_NonPositiveBudgetPolicy ==
  (pc = "end" /\ KeysDistinct /\ \A r \in InputRows : ~IsNaN(r.Obs)) =>
    \A r \in InputRows :
      (/\ IsNum(r.Orcamento) /\ r.Orcamento.n <= 0
       /\ variant = "app" => FollowsPositive(r)) =>
        \/ ~PanelProduced
        \/ /\ \E x \in OutRows : x.id = r.id /\ IsNaN(x.ln_Orcamento)
           /\ \A y \in RegRowSet : y.id # r.id

(***************************************************************************)
(* C4.  Two files that differ only in the values of the extra column give  *)
(* panels with the same rows: the panel of a file is that of the file with *)
(* its extra cells all filled.  Stated for the files whose budgets are all *)
(* positive and in which no (Universidade, Ano) is repeated.               *)
(***************************************************************************)
C4_ExtraColumnsIgnored ==
  (KeysDistinct /\ \A r \in InputRows : PositiveBudget(r)) =>
    /\ (variant = "app" /\ PanelProduced) =>
         CoreSeq(df.rows) = CoreSeq(CarregarDados(FillObs(file)).tbl.rows)
    /\ (variant = "script" /\ PanelProduced /\ pc = "sec2") =>
         CoreSeq(df.rows) = CoreSeq(ScriptLoadBlock(FillObs(file)).tbl.rows)

(***************************************************************************)
(* C5.  A missing IGC before the first observed value of its entity is     *)
(* still missing after the repair: in the script's table the cell is NaN,  *)
(* and carregar_dados, which drops the rows with a missing cell, returns   *)
(* no such row.                                                            *)
(***************************************************************************)
C5_LeadingGapStaysMissing ==
  Repaired =>
    \A r \in InputRows :
      LeadingGap(r) =>
        /\ \A x \in OutRows : x.id = r.id => IsNaN(x.IGC)
        /\ variant = "script" => \E x \in OutRows : x.id = r.id
        /\ variant = "app" => \A x \in OutRows : x.id # r.id

\* C5, witness: the script repaired a series with a leading gap followed
\* by a value.
C5_Witness ==
  /\ variant = "script"
  /\ Repaired
  /\ \E r \in InputRows : LeadingGap(r) /\ ObsAfter(r) # {}
       /\ \E x \in OutRows : x.id = r.id /\ IsNaN(x.IGC)

(***************************************************************************)
(* C6.  No two records of a panel share (Universidade, Ano).               *)
(***************************************************************************)
C6_KeysUnique ==
  PanelProduced =>
    \A i, j \in 1..Len(df.rows) :
      (df.rows[i].Universidade = df.rows[j].Universidade
         /\ df.rows[i].Ano = df.rows[j].Ano) => i = j

(***************************************************************************)
(* C7.  The records of a panel are non-decreasing in (Universidade, Ano),  *)
(* entity first, also after the derivations and the removal of rows.       *)
(***************************************************************************)
C7_SortedByKey ==
  PanelProduced =>
    \A i, j \in 1..Len(df.rows) :
      i < j =>
        \/ Rank(df.rows[i].Universidade) < Rank(df.rows[j].Universidade)
        \/ /\ df.rows[i].Universidade = df.rows[j].Universidade
           /\ df.rows[i].Ano <= df.rows[j].Ano

\* C7, witness: a panel of three rows of both entities from a file that was
\* not in key order.
C7_Witness ==
  /\ PanelProduced
  /\ Len(df.rows) >= 3
  /\ \E i, j \in 1..Len(df.rows) :
       df.rows[i].Universidade # df.rows[j].Universidade
  /\ \E i, j \in 1..Len(file.rows) :
       /\ i < j
       /\ \/ Rank(file.rows[j].Universidade) < Rank(file.rows[i].Universidade)
          \/ /\ file.rows[i].Universidade = file.rows[j].Universidade
             /\ file.rows[j].Ano < file.rows[i].Ano

(***************************************************************************)
(* C8.  Pos_Teto is 1 exactly from 2017 on, and Interacao is the budget    *)
(* log of the variant times Pos_Teto.                                      *)
(***************************************************************************)
\* C8 as claimed: every row before 2017 has Interacao = 0.  Stated for the
\* files with no zero or negative budget.
C8_InteracaoZeroBeforeTeto ==
  (Has(df, "Interacao")
     /\ \A r \in InputRows : IsNaN(r.Orcamento) \/ PositiveBudget(r)) =>
    \A x \in OutRows :
      /\ x.Pos_Teto = 1 <=> x.Ano >= 2017
      /\ x.Pos_Teto = 0 <=> x.Ano < 2017
      /\ x.Ano >= 2017 => x.Interacao = BudgetLog(x)
      /\ x.Ano < 2017 => x.Interacao = Num(0)

\* C8 as amended: Pos_Teto is 1 exactly from 2017 on; from 2017 on
\* Interacao is the budget log; before 2017 Interacao is 0 when the budget
\* log is a finite number, and is undefined (NaN) when the budget log is NaN
\* or infinite.
C8_TreatmentIndicator ==
  Has(df, "Interacao") =>
    \A x \in OutRows :
      /\ x.Pos_Teto = 1 <=> x.Ano >= 2017
      /\ x.Pos_Teto = 0 <=> x.Ano < 2017
      /\ x.Ano >= 2017 => x.Interacao = BudgetLog(x)
      /\ (x.Ano < 2017 /\ BudgetLog(x).k = "ln") => x.Interacao = Num(0)
      /\ (x.Ano < 2017 /\ BudgetLog(x).k # "ln") => IsNaN(x.Interacao)

\* C8, witness: a table with a row of 2017 whose Interacao is its budget
\* log and a row of 2016 whose Interacao is undefined.
C8_Witness ==
  /\ Has(df, "Interacao")
  /\ \E x \in OutRows : x.Ano = 2017 /\ x.Pos_Teto = 1
                          /\ x.Interacao.k = "ln"
  /\ \E x \in OutRows : x.Ano = 2016 /\ x.Pos_Teto = 0
                          /\ IsNaN(x.Interacao)

(***************************************************************************)
(* C9.  carregar_dados: the lag of a row is the ln_Orcamento of the row    *)
(* before it in its entity, and the panel returned holds exactly the rows  *)
(* of the file whose derived fields are all defined.  Stated for the files *)
(* in which no (Universidade, Ano) is repeated.                            *)
(***************************************************************************)
C9_LaggedPanelRows ==
  (variant = "app" /\ PanelProduced /\ KeysDistinct) =>
    /\ \A x \in OutRows : \A r \in InputRows :
         x.id = r.id =>
           /\ RowsBefore(r) # {}
           /\ x.ln_Orcamento_lag = Log(LastOf(RowsBefore(r)).Orcamento)
    /\ {x.id : x \in OutRows} = {r.id : r \in {q \in InputRows :
                                                 AllDerivedDefined(q)}}

(***************************************************************************)
(* C10.  A .csv file is parsed with comma first and with semicolon only    *)
(* when that failed, any other file as a spreadsheet; when no parse        *)
(* succeeds or the table has no columns, the run ends in an ingest error   *)
(* and no table reaches normalize or buildPanel.                           *)
(***************************************************************************)
C10_OrderedParseFallback ==
  (pc # "start" /\ file # NoFile) =>
    /\ IsCsv(file) =>
         /\ attempts[1] = "comma"
         /\ Len(attempts) = 2 <=> ~ReadCsvComma(file).ok
         /\ Len(attempts) = 2 => attempts[2] = "semicolon"
    /\ ~IsCsv(file) => attempts = <<"excel">>
    /\ (~Ingest(file).res.ok \/ file.hdrs = {}) =>
         /\ err.kind = "ingest"
         /\ reached = {}

====
